---------------------------- MODULE Spec2Model ----------------------------
(***************************************************************************)
(* QueueCTL: a durable job queue (SQLite table "jobs"), worker processes   *)
(* that acquire / execute / save jobs, and the control surface (enqueue,   *)
(* dlq retry, config set).                                                 *)
(*                                                                         *)
(* Time is counted in ticks since the epoch; TicksPerSecond ticks make a   *)
(* second.  Timestamps are stored by the program as text                   *)
(* (datetime.utcnow().isoformat() + "Z") and compared as text by SQLite,   *)
(* so the model keeps the instant and compares it the way the text         *)
(* compares (IsoKey, StaleLock).                                           *)
(***************************************************************************)
EXTENDS Integers, Sequences, FiniteSets, TLC

(***************************************************************************)
(* Bounds of the model.                                                    *)
(***************************************************************************)
NumWorkers == 2
MaxJobs == 2
MaxEnqueueIds == 1
MaxTicks == 2
MaxJumps == 1
MaxAttempts == 3
MaxRuns == 3
MaxKills == 1
NumOperators == 2
MaxStarts == 2
StopPolls == 10
LastSecond == 1000
TicksPerSecond == 2

(***************************************************************************)
(* Program constants.                                                      *)
(***************************************************************************)
NULL == -1
NullText == "NULL"
StaleLockMinutes == 5
DefaultMaxRetries == 3
DefaultBackoffBase == 2
DefaultPriority == 2

PENDING == "pending"
PROCESSING == "processing"
COMPLETED == "completed"
FAILED == "failed"
DEAD == "dead"
JobState == {PENDING, PROCESSING, COMPLETED, FAILED, DEAD}

Workers == 1..NumWorkers
JobIds == 1..MaxJobs
\* The ids the operator enqueues under.
EnqueueIds == 1..MaxEnqueueIds

VARIABLES
    jobs,       \* the jobs table: a function from the stored ids to rows
    config,     \* the config table: [max_retries, backoff_base]
    dbLock,     \* the worker holding the EXCLUSIVE transaction, or NULL
    now,        \* the wall clock, in ticks
    pc,         \* per worker: where its process is
    raising,    \* per worker: an exception is leaving _execute_job
    running,    \* per worker: Worker.running
    job,        \* per worker: the Job object it holds (NoJob when none)
    cfg,        \* per worker: Worker.config (the field the worker reads)
    acqNow,     \* per worker: "now" of the acquire_job call in progress
    got,        \* history, per worker: the row as its acquire_job locked it
    cli,        \* the control-surface command in progress
    runs,       \* history: per job id, invocations of its command
    delays,     \* history: per job id, the delay of its last failure
                \* (NULL when it has none)
    retried,    \* history: per job id, its last dlq retry (NoRetry when
                \* it has none): the attempts before it, its flag, and the
                \* failed attempts since
    kills,      \* history: per SIGKILL delivered, the job id its process
                \* was executing (NULL when none)
    pidFile,    \* the sidecar file .queuectl_workers.pid: a set of pids
    mgr,        \* the WorkerManager call in progress
    call        \* history, per worker: the start call that spawned it

supVars == <<pidFile, mgr, call>>

vars == <<jobs, config, dbLock, now, pc, running, raising, job, cfg, acqNow,
          got, cli, runs, delays, retried, kills, pidFile, mgr, call>>

--------------------------------------------------------------------------
(***************************************************************************)
(* Timestamps.                                                             *)
(***************************************************************************)
SecondsPerDay == 24 * 60 * 60
StaleLockSeconds == StaleLockMinutes * 60
TicksPerDay == SecondsPerDay * TicksPerSecond

\* The run starts one second before midnight of day 0.
StartOfRun == TicksPerDay - TicksPerSecond
JumpTicks == (StaleLockSeconds + 1) * TicksPerSecond

SecondOf(t) == t \div TicksPerSecond
FractionOf(t) == t % TicksPerSecond
DayOf(t) == t \div TicksPerDay

\* Order of the isoformat() + "Z" texts.  isoformat() omits the fraction
\* when microsecond = 0, so within one second the text "...:05Z" sorts
\* after every "...:05.ffffffZ" ("." < "Z").
IsoKey(t) ==
    SecondOf(t) * (TicksPerSecond + 1)
        + (IF FractionOf(t) = 0 THEN TicksPerSecond ELSE FractionOf(t))
IsoLeq(a, b) == IsoKey(a) <= IsoKey(b)
IsoLess(a, b) == IsoKey(a) < IsoKey(b)

\* locked_at < datetime('now', '-5 minutes'): the left text is
\* "YYYY-MM-DDTHH:MM:SS[.ffffff]Z", the right one "YYYY-MM-DD HH:MM:SS".
\* They differ at the 11th character at the latest ("T" > " "), so the
\* comparison is decided by the dates alone.
StaleLock(locked_at, sqlNow) ==
    DayOf(locked_at) < DayOf(sqlNow - StaleLockSeconds * TicksPerSecond)

--------------------------------------------------------------------------
(***************************************************************************)
(* Jobs (entities.py) and the store (database.py).                         *)
(***************************************************************************)
NoJob == [id |-> NULL]

\* The history of a job no dlq retry has stored.
NoRetry == [fails |-> NULL]

\* Job(id, command, ...): the dataclass with its defaults; created_at is
\* set by __post_init__ when not given.
Job(id, command, t) ==
    [id |-> id, command |-> command, state |-> PENDING, attempts |-> 0,
     max_retries |-> DefaultMaxRetries, timeout |-> NULL,
     priority |-> DefaultPriority, created_at |-> t,
     next_retry_at |-> NULL, error_message |-> NullText,
     locked_by |-> NULL, locked_at |-> NULL]

\* Config(): the dataclass with its defaults.
DefaultConfig ==
    [max_retries |-> DefaultMaxRetries, backoff_base |-> DefaultBackoffBase]

\* Of the Config a worker loads it reads backoff_base only.
WorkerConfig(conf) == [backoff_base |-> conf.backoff_base]

\* The Job built from a SELECTed row: the lock columns are not selected.
JobFromRow(row) == [row EXCEPT !.locked_by = NULL, !.locked_at = NULL]

\* save_job: INSERT OR REPLACE of every column, the lock columns NULL.
SaveJobKeepingLock(table, j) ==
    [i \in DOMAIN table \cup {j.id} |->
        IF i # j.id THEN table[i]
        ELSE IF i \in DOMAIN table
             THEN [j EXCEPT !.locked_by = table[i].locked_by,
                            !.locked_at = table[i].locked_at]
             ELSE [j EXCEPT !.locked_by = NULL, !.locked_at = NULL]]
SaveJob(table, j) ==
    [i \in DOMAIN table \cup {j.id} |->
        IF i = j.id THEN [j EXCEPT !.locked_by = NULL, !.locked_at = NULL]
                    ELSE table[i]]

\* release_job: UPDATE ... SET locked_by = NULL, locked_at = NULL WHERE id.
ReleaseJob(table, id) ==
    [i \in DOMAIN table |->
        IF i = id THEN [table[i] EXCEPT !.locked_by = NULL, !.locked_at = NULL]
                  ELSE table[i]]

\* The recovery UPDATE without "locked_by=NULL, locked_at=NULL".
ReapStuckKeepingLock(table) ==
    [i \in DOMAIN table |->
        IF table[i].state = PROCESSING
        THEN [table[i] EXCEPT !.state = FAILED]
        ELSE table[i]]

\* Worker.start's recovery UPDATE: every processing row becomes failed.
ReapStuck(table) ==
    [i \in DOMAIN table |->
        IF table[i].state = PROCESSING
        THEN [table[i] EXCEPT !.state = FAILED,
                              !.locked_by = NULL, !.locked_at = NULL]
        ELSE table[i]]

\* The WHERE clause of acquire_job's SELECT.  pyNow is the parameter bound
\* to "?", sqlNow the instant at which SQLite evaluates datetime('now').
RetryDue(row, pyNow) ==
    row.next_retry_at = NULL \/ IsoLeq(row.next_retry_at, pyNow)

LockFree(row, sqlNow) ==
    \/ row.locked_by = NULL
    \/ (row.locked_at # NULL /\ StaleLock(row.locked_at, sqlNow))

Eligible(row, pyNow, sqlNow) ==
    /\ (row.state = PENDING \/ (row.state = FAILED /\ RetryDue(row, pyNow)))
    /\ LockFree(row, sqlNow)

\* ORDER BY priority ASC, created_at ASC (created_at compared as text).
OrderedBefore(a, b) ==
    \/ a.priority < b.priority
    \/ (a.priority = b.priority /\ IsoLess(a.created_at, b.created_at))

\* The rows LIMIT 1 may return: SQLite leaves the order of rows that tie
\* on the ORDER BY columns unspecified.
FirstRows(table, pyNow, sqlNow) ==
    {i \in DOMAIN table :
        /\ Eligible(table[i], pyNow, sqlNow)
        /\ \A k \in DOMAIN table :
              Eligible(table[k], pyNow, sqlNow)
                  => ~OrderedBefore(table[k], table[i])}

\* The UPDATE without "state='processing'".
LockRowKeepingState(table, id, w, pyNow) ==
    [i \in DOMAIN table |->
        IF i = id THEN [table[i] EXCEPT !.locked_by = w, !.locked_at = pyNow]
                  ELSE table[i]]

\* The UPDATE that locks the selected row.
LockRow(table, id, w, pyNow) ==
    [i \in DOMAIN table |->
        IF i = id THEN [table[i] EXCEPT !.locked_by = w, !.locked_at = pyNow,
                                        !.state = PROCESSING]
                  ELSE table[i]]

\* BEGIN EXCLUSIVE is granted only when no other connection holds the
\* database; every other statement waits for the same condition.
CanBeginDeferred(w) == TRUE
CanBegin(w) == dbLock = NULL
DbFree == dbLock = NULL

--------------------------------------------------------------------------
(***************************************************************************)
(* The executor (worker_logic.py).                                         *)
(***************************************************************************)
\* datetime.max, scaled down: the last instant a timestamp can hold.
LastInstant == StartOfRun + LastSecond * TicksPerSecond

\* b ** e.  Python's integers are unbounded; every value beyond LastSecond
\* is out of range for the datetime it is added to, so the model stops
\* counting there.
RECURSIVE Pow(_, _)
Pow(b, e) ==
    IF e = 0 THEN 1
    ELSE LET p == b * Pow(b, e - 1) IN
         IF p > LastSecond THEN LastSecond + 1 ELSE p

\* The command runner is a black box: what subprocess.run may do with a
\* command.  "ok" is exit code 0, "exit" a non-zero exit code, "timeout"
\* TimeoutExpired, "raised" any other exception.
Commands == {"true", "false", "flaky"}
RunCommand(command) ==
    CASE command = "true" -> {"ok"}
      [] command = "false" -> {"exit"}
      [] OTHER -> {"ok", "exit", "timeout", "raised"}

ErrorText(outcome) ==
    CASE outcome = "exit" -> "Exit code: 1"
      [] outcome = "timeout" -> "Job timed out"
      [] OTHER -> "runner raised"
OverflowText == "date value out of range"

\* backoff_seconds = self.config.backoff_base ** job.attempts
BackoffSeconds(base, attempts) == Pow(base, attempts)

\* _handle_job_failure(job, error_message), run at instant t.
RetriesExhausted(j) == j.attempts >= j.max_retries

\* datetime.utcnow() + timedelta(seconds=backoff_seconds) raises
\* OverflowError when the sum is not a datetime.
BackoffOverflows(j, base, t) ==
    /\ ~RetriesExhausted(j)
    /\ t + BackoffSeconds(base, j.attempts) * TicksPerSecond > LastInstant

\* When the addition raises, error_message and state are already assigned
\* and next_retry_at is not.
HandleJobFailure(j, msg, base, t) ==
    IF RetriesExhausted(j)
    THEN [j EXCEPT !.error_message = msg, !.state = DEAD,
                   !.next_retry_at = NULL]
    ELSE IF BackoffOverflows(j, base, t)
    THEN [j EXCEPT !.error_message = msg, !.state = FAILED]
    ELSE [j EXCEPT !.error_message = msg, !.state = FAILED,
                   !.next_retry_at =
                       t + BackoffSeconds(base, j.attempts) * TicksPerSecond]

\* The success branch of _execute_job.
HandleJobSuccess(j) ==
    [j EXCEPT !.state = COMPLETED, !.error_message = NullText]

\* The classification of one finished command run.  An OverflowError out
\* of the "exit" branch is caught by "except Exception", which calls
\* _handle_job_failure again with the text of that error; out of an except
\* clause it is not caught again.
Classify(j, outcome, base, t) ==
    IF outcome = "ok" THEN HandleJobSuccess(j)
    ELSE IF outcome = "exit" /\ BackoffOverflows(j, base, t)
    THEN HandleJobFailure(j, OverflowText, base, t)
    ELSE HandleJobFailure(j, ErrorText(outcome), base, t)

\* The delay _handle_job_failure used for the retry it scheduled: the
\* next_retry_at it assigned minus the instant of the failure (NULL when
\* the addition raised; unchanged when no retry was scheduled).
DelayUsed(j, outcome, base, t, last) ==
    IF outcome = "ok" \/ RetriesExhausted(j) THEN last
    ELSE IF BackoffOverflows(j, base, t) THEN NULL
    ELSE Classify(j, outcome, base, t).next_retry_at - t

\* The exception _handle_job_failure raised leaves _execute_job.
Raises(j, outcome, base, t) ==
    outcome # "ok" /\ BackoffOverflows(j, base, t)

--------------------------------------------------------------------------
(***************************************************************************)
(* A worker process (Worker.__init__, Worker.start).                       *)
(***************************************************************************)
Holding(w) == pc[w] \in {"execute", "running", "save"}
HeldBy(i) == {w \in Workers : Holding(w) /\ job[w].id = i}

\* A worker process from its spawn (WorkerManager._start_worker) to the
\* loop: Worker.__init__, then Worker.start sets running = True and runs
\* the recovery UPDATE.  (The configuration __init__ reads is read again
\* before its first use, so cfg[w] is left alone here.)
StartAt(w, at) ==
    /\ pc[w] = at
    /\ DbFree
    /\ running' = [running EXCEPT ![w] = TRUE]
    /\ jobs' = ReapStuck(jobs)
    /\ pc' = [pc EXCEPT ![w] = "loop"]
    /\ UNCHANGED <<config, dbLock, now, raising, job, cfg, acqNow, got, cli,
                   runs, kills, supVars, delays, retried>>

\* The process is spawned and started in one step.
Start(w) == StartAt(w, "down")

\* The process the supervisor has spawned (Popen) starts.
Boot(w) == StartAt(w, "spawned")

\* The local state of a process that is gone.
Gone(w) ==
    /\ pc' = [pc EXCEPT ![w] = "down"]
    /\ running' = [running EXCEPT ![w] = FALSE]
    /\ raising' = [raising EXCEPT ![w] = FALSE]
    /\ job' = [job EXCEPT ![w] = NoJob]
    /\ got' = [got EXCEPT ![w] = NoJob]
    /\ acqNow' = [acqNow EXCEPT ![w] = NULL]
    /\ cfg' = [cfg EXCEPT ![w] = WorkerConfig(DefaultConfig)]

\* The head of an iteration.  While self.running: reload the configuration
\* and enter acquire_job, whose first statement reads the clock.  Else, or
\* when an exception has left _execute_job, the loop ends: finally
\* releases the current job, if one is held, closes the
\* store, and the process exits.
LoopHead(w) ==
    /\ pc[w] = "loop"
    /\ DbFree
    /\ IF running[w] /\ ~raising[w]
       THEN /\ cfg' = [cfg EXCEPT ![w] = WorkerConfig(config)]
            /\ acqNow' = [acqNow EXCEPT ![w] = now]
            /\ pc' = [pc EXCEPT ![w] = "begin"]
            /\ UNCHANGED <<jobs, running, raising, job, got>>
       ELSE /\ jobs' = IF job[w] = NoJob THEN jobs
                                         ELSE ReleaseJob(jobs, job[w].id)
            /\ Gone(w)
    /\ UNCHANGED <<config, dbLock, now, cli, runs, kills, supVars, delays, retried>>

\* acquire_job: BEGIN EXCLUSIVE, the SELECT ... LIMIT 1 and fetchone().
AcquireSelect(w) ==
    /\ pc[w] = "begin"
    /\ CanBegin(w)
    /\ dbLock' = w
    /\ LET rows == FirstRows(jobs, acqNow[w], now) IN
          IF rows = {}
          THEN job' = [job EXCEPT ![w] = NoJob]
          ELSE \E i \in rows : job' = [job EXCEPT ![w] = JobFromRow(jobs[i])]
    /\ pc' = [pc EXCEPT ![w] = "commit"]
    /\ UNCHANGED <<jobs, config, now, running, raising, cfg, acqNow, got, cli,
                   runs, kills, supVars, delays, retried>>

\* acquire_job: the locking UPDATE, COMMIT and return; back in the loop,
\* a job goes to _execute_job, None to the sleep and the next iteration.
\* (The local "now" is not read again: the model forgets it.)
AcquireCommit(w) ==
    /\ pc[w] = "commit"
    /\ dbLock' = IF dbLock = w THEN NULL ELSE dbLock
    /\ IF job[w] = NoJob
       THEN /\ pc' = [pc EXCEPT ![w] = "loop"]
            /\ UNCHANGED <<jobs, job, got>>
       ELSE /\ jobs' = LockRow(jobs, job[w].id, w, acqNow[w])
            /\ job' = [job EXCEPT ![w] = [@ EXCEPT !.state = PROCESSING]]
            /\ got' = [got EXCEPT ![w] = [job[w] EXCEPT
                                             !.state = PROCESSING,
                                             !.locked_by = w,
                                             !.locked_at = acqNow[w]]]
            /\ pc' = [pc EXCEPT ![w] = "execute"]
    /\ acqNow' = [acqNow EXCEPT ![w] = NULL]
    /\ UNCHANGED <<config, now, running, raising, cfg, cli, runs, kills,
                   supVars, delays, retried>>

\* _execute_job: job.attempts += 1 and the command is started.
ExecuteBegin(w) ==
    /\ pc[w] = "execute"
    /\ job' = [job EXCEPT ![w] = [@ EXCEPT !.attempts = @ + 1]]
    /\ runs' = [runs EXCEPT ![job[w].id] = IF @ < MaxRuns THEN @ + 1 ELSE @]
    /\ pc' = [pc EXCEPT ![w] = "running"]
    /\ UNCHANGED <<jobs, config, dbLock, now, running, raising, cfg, acqNow,
                   got, cli, kills, supVars, delays, retried>>

\* History: one more failed attempt since the job's last dlq retry.
FailsCounted(last, outcome) ==
    IF last = NoRetry \/ outcome = "ok" THEN last
    ELSE [last EXCEPT !.fails = IF @ < MaxAttempts THEN @ + 1 ELSE @]

\* _execute_job: the command has ended and is classified.
\* (self.config is read again at the next iteration before any use: the
\* model forgets it here.)
ExecuteEnd(w) ==
    /\ pc[w] = "running"
    /\ \E outcome \in RunCommand(job[w].command) :
          /\ job' = [job EXCEPT
                        ![w] = Classify(@, outcome, cfg[w].backoff_base, now)]
          /\ raising' = [raising EXCEPT
                            ![w] = Raises(job[w], outcome,
                                          cfg[w].backoff_base, now)]
          /\ delays' = [delays EXCEPT
                           ![job[w].id] =
                               DelayUsed(job[w], outcome,
                                         cfg[w].backoff_base, now, @)]
          /\ retried' = [retried EXCEPT
                            ![job[w].id] = FailsCounted(@, outcome)]
    /\ cfg' = [cfg EXCEPT ![w] = WorkerConfig(DefaultConfig)]
    /\ pc' = [pc EXCEPT ![w] = "save"]
    /\ UNCHANGED <<jobs, config, dbLock, now, running, acqNow, got, cli, runs,
                   kills, supVars>>

\* _execute_job, finally: self.storage.save_job(job) returns True.
Save(w) ==
    /\ pc[w] = "save"
    /\ DbFree
    /\ jobs' = SaveJob(jobs, job[w])
    /\ pc' = [pc EXCEPT ![w] = "release"]
    /\ UNCHANGED <<config, dbLock, now, running, raising, job, cfg, acqNow,
                   got, cli, runs, kills, supVars, delays, retried>>

\* _execute_job, finally: save_job catches a store error and returns False.
SaveFails(w) ==
    /\ pc[w] = "save"
    /\ pc' = [pc EXCEPT ![w] = "release"]
    /\ UNCHANGED <<jobs, config, dbLock, now, running, raising, job, cfg,
                   acqNow, got, cli, runs, kills, supVars, delays, retried>>

\* _execute_job, finally: self.storage.release_job(job.id); back in the
\* loop, self.current_job = None, unless an exception is on its way out:
\* then current_job stays set for the loop's finally clause.
Release(w) ==
    /\ pc[w] = "release"
    /\ DbFree
    /\ jobs' = ReleaseJob(jobs, job[w].id)
    /\ job' = [job EXCEPT ![w] = IF raising[w] THEN @ ELSE NoJob]
    /\ got' = [got EXCEPT ![w] = NoJob]
    /\ pc' = [pc EXCEPT ![w] = "loop"]
    /\ UNCHANGED <<config, dbLock, now, running, raising, cfg, acqNow, cli,
                   runs, kills, supVars, delays, retried>>

\* _handle_shutdown: SIGTERM or SIGINT reaches the process.
Shutdown(w) ==
    /\ pc[w] # "down"
    /\ running[w]
    /\ running' = [running EXCEPT ![w] = FALSE]
    /\ UNCHANGED <<jobs, config, dbLock, now, pc, raising, job, cfg, acqNow,
                   got, cli, runs, kills, supVars, delays, retried>>

\* SIGKILL (stop_workers, or any crash): the process is gone; SQLite rolls
\* its open transaction back.
Kill(w) ==
    /\ pc[w] # "down"
    /\ Len(kills) < MaxKills
    /\ kills' = Append(kills, IF pc[w] = "running" THEN job[w].id ELSE NULL)
    /\ dbLock' = IF dbLock = w THEN NULL ELSE dbLock
    /\ Gone(w)
    /\ UNCHANGED <<jobs, config, now, cli, runs, supVars, delays, retried>>

--------------------------------------------------------------------------
(***************************************************************************)
(* The supervisor (worker_manager.py).  A worker's pid is its index;       *)
(* pidFile is the content of .queuectl_workers.pid, mgr the start_workers  *)
(* call in progress (call: how many calls were made so far), call[w] the   *)
(* start_workers call that spawned process w.                              *)
(***************************************************************************)
MgrIdle == [op |-> "idle", call |-> 0, count |-> 0, i |-> 0, pids |-> {}]

SupervisorInit ==
    /\ pidFile = {}
    /\ mgr = MgrIdle
    /\ call = [w \in Workers |-> 0]

\* _is_process_running(pid)
IsProcessRunning(w) == pc[w] # "down"

\* _get_running_workers: the pids of the file whose process is running.
RunningWorkers(file) == {w \in file : IsProcessRunning(w)}

\* start_workers: "if existing_pids:" refuses the call.
RefusesWhenAllRun(file) == file # {} /\ RunningWorkers(file) = file
Refuses(file) == RunningWorkers(file) # {}

\* start_workers(count), up to the test of existing_pids.
\* _get_running_workers rewrites the file without the dead pids (or
\* unlinks it); a refused call returns [].
MgrStartCheck(count) ==
    /\ mgr.op = "idle"
    /\ mgr.call < MaxStarts
    /\ pidFile' = RunningWorkers(pidFile)
    /\ mgr' = IF Refuses(pidFile)
              THEN [op |-> "return", call |-> mgr.call + 1, count |-> count,
                    i |-> 0, pids |-> {}]
              ELSE [op |-> "spawn", call |-> mgr.call + 1, count |-> count,
                    i |-> 1, pids |-> {}]
    /\ UNCHANGED <<jobs, config, dbLock, now, pc, running, raising, job, cfg,
                   acqNow, got, cli, runs, kills, call, delays, retried>>

\* _start_worker: subprocess.Popen of worker-i.
MgrSpawn ==
    /\ mgr.op = "spawn"
    /\ mgr.i <= mgr.count
    /\ pc[mgr.i] = "down"
    /\ pc' = [pc EXCEPT ![mgr.i] = "spawned"]
    /\ call' = [call EXCEPT ![mgr.i] = mgr.call]
    /\ mgr' = [mgr EXCEPT !.op = "poll"]
    /\ UNCHANGED <<jobs, config, dbLock, now, running, raising, job, cfg,
                   acqNow, got, cli, runs, kills, pidFile, delays, retried>>

\* _start_worker: after the sleep, process.poll() is None gives the pid.
MgrPoll ==
    /\ mgr.op = "poll"
    /\ mgr' = [mgr EXCEPT !.op = "spawn",
                          !.i = @ + 1,
                          !.pids = IF IsProcessRunning(mgr.i)
                                   THEN @ \cup {mgr.i} ELSE @]
    /\ UNCHANGED <<jobs, config, dbLock, now, pc, running, raising, job, cfg,
                   acqNow, got, cli, runs, kills, pidFile, call, delays, retried>>

\* start_workers: "if pids: self._save_pids(pids)" overwrites the file.
MgrSave ==
    /\ mgr.op = "spawn"
    /\ mgr.i > mgr.count
    /\ pidFile' = IF mgr.pids # {} THEN mgr.pids ELSE pidFile
    /\ mgr' = [mgr EXCEPT !.op = "return"]
    /\ UNCHANGED <<jobs, config, dbLock, now, pc, running, raising, job, cfg,
                   acqNow, got, cli, runs, kills, call, delays, retried>>

\* start_workers returns mgr.pids.
MgrReturn ==
    /\ mgr.op = "return"
    /\ mgr' = [MgrIdle EXCEPT !.call = mgr.call]
    /\ UNCHANGED <<jobs, config, dbLock, now, pc, running, raising, job, cfg,
                   acqNow, got, cli, runs, kills, pidFile, call, delays, retried>>

\* The pid a loop over the pids list reaches next (the file lists the pids
\* in the order of their spawn).
LeastOf(S) == CHOOSE x \in S : \A y \in S : x <= y

\* os.kill(pid, signal.SIGKILL): the process is gone at once.
SigKill(w) ==
    /\ kills' = Append(kills, IF pc[w] = "running" THEN job[w].id ELSE NULL)
    /\ dbLock' = IF dbLock = w THEN NULL ELSE dbLock
    /\ Gone(w)

\* os.kill(pid, signal.SIGTERM): _handle_shutdown clears running; a process
\* that has not installed the handler yet dies of the signal.
SigTerm(w) ==
    /\ IF pc[w] = "spawned"
       THEN Gone(w)
       ELSE /\ running' = [running EXCEPT ![w] = FALSE]
            /\ UNCHANGED <<pc, raising, job, got, acqNow, cfg>>
    /\ UNCHANGED <<kills, dbLock>>

\* stop_workers(graceful), up to "if not pids": _get_running_workers prunes
\* the file; with no pid left the call returns 0.
MgrStopCheck(graceful) ==
    /\ mgr.op = "idle"
    /\ pidFile' = RunningWorkers(pidFile)
    /\ mgr' = [op |-> IF RunningWorkers(pidFile) = {} THEN "stopped"
                                                       ELSE "stop",
               call |-> mgr.call, graceful |-> graceful,
               pids |-> RunningWorkers(pidFile),
               todo |-> RunningWorkers(pidFile),
               sent |-> {}, polls |-> 0, stopped |-> 0]
    /\ UNCHANGED <<jobs, config, dbLock, now, pc, running, raising, job, cfg,
                   acqNow, got, cli, runs, kills, call, delays, retried>>

\* stop_workers: the next pid is not running any more and is passed over.
MgrStopSkip ==
    /\ mgr.op = "stop"
    /\ mgr.todo # {}
    /\ ~IsProcessRunning(LeastOf(mgr.todo))
    /\ mgr' = [mgr EXCEPT !.todo = @ \ {LeastOf(mgr.todo)}]
    /\ UNCHANGED <<jobs, config, dbLock, now, pc, running, raising, job, cfg,
                   acqNow, got, cli, runs, kills, pidFile, call, delays, retried>>

\* stop_workers, graceful: SIGTERM to the next pid, then the wait.
MgrStopTerm ==
    /\ mgr.op = "stop"
    /\ mgr.todo # {}
    /\ mgr.graceful
    /\ IsProcessRunning(LeastOf(mgr.todo))
    /\ SigTerm(LeastOf(mgr.todo))
    /\ mgr' = [mgr EXCEPT !.op = "wait", !.polls = 0,
                          !.sent = @ \cup {LeastOf(mgr.todo)}]
    /\ UNCHANGED <<jobs, config, now, cli, runs, pidFile, call, delays, retried>>

\* stop_workers, not graceful: SIGKILL to the next pid, which is counted.
MgrStopKill ==
    /\ mgr.op = "stop"
    /\ mgr.todo # {}
    /\ ~mgr.graceful
    /\ IsProcessRunning(LeastOf(mgr.todo))
    /\ SigKill(LeastOf(mgr.todo))
    /\ mgr' = [mgr EXCEPT !.todo = @ \ {LeastOf(mgr.todo)},
                          !.sent = @ \cup {LeastOf(mgr.todo)},
                          !.stopped = @ + 1]
    /\ UNCHANGED <<jobs, config, now, cli, runs, pidFile, call, delays, retried>>

\* stop_workers, graceful: "for _ in range(10)": break when the process is
\* not running, else sleep one second.
MgrStopPoll ==
    /\ mgr.op = "wait"
    /\ mgr' = IF ~IsProcessRunning(LeastOf(mgr.todo))
              THEN [mgr EXCEPT !.op = "final"]
              ELSE [mgr EXCEPT !.polls = @ + 1,
                               !.op = IF mgr.polls + 1 = StopPolls
                                      THEN "final" ELSE "wait"]
    /\ UNCHANGED <<jobs, config, dbLock, now, pc, running, raising, job, cfg,
                   acqNow, got, cli, runs, kills, pidFile, call, delays, retried>>

\* stop_workers, graceful: the test after the wait.
StillRunningIgnored(w) == FALSE
StillRunning(w) == IsProcessRunning(w)

\* stop_workers, graceful: a process still running after the wait gets
\* SIGKILL; the pid is counted.
MgrStopFinal ==
    /\ mgr.op = "final"
    /\ IF StillRunning(LeastOf(mgr.todo))
       THEN SigKill(LeastOf(mgr.todo))
       ELSE UNCHANGED <<pc, running, raising, job, got, acqNow, cfg, kills,
                        dbLock>>
    /\ mgr' = [mgr EXCEPT !.op = "stop",
                          !.todo = @ \ {LeastOf(mgr.todo)},
                          !.stopped = @ + 1]
    /\ UNCHANGED <<jobs, config, now, cli, runs, pidFile, call, delays, retried>>

\* stop_workers: the loop is over, the pid file is unlinked.
MgrStopUnlink ==
    /\ mgr.op = "stop"
    /\ mgr.todo = {}
    /\ pidFile' = {}
    /\ mgr' = [mgr EXCEPT !.op = "stopped"]
    /\ UNCHANGED <<jobs, config, dbLock, now, pc, running, raising, job, cfg,
                   acqNow, got, cli, runs, kills, call, delays, retried>>

\* stop_workers returns mgr.stopped.
MgrStopReturn ==
    /\ mgr.op = "stopped"
    /\ mgr' = [MgrIdle EXCEPT !.call = mgr.call]
    /\ UNCHANGED <<jobs, config, dbLock, now, pc, running, raising, job, cfg,
                   acqNow, got, cli, runs, kills, pidFile, call, delays, retried>>

\* worker status, up to the loop of get_worker_status: pids is what
\* _get_running_workers returns, after it has rewritten the file without
\* the dead pids (or unlinked it).  tracked is the file as the call found it.
MgrStatusCheck ==
    /\ mgr.op = "idle"
    /\ pidFile' = RunningWorkers(pidFile)
    /\ mgr' = [op |-> "status", call |-> mgr.call, tracked |-> pidFile,
               pids |-> RunningWorkers(pidFile),
               todo |-> RunningWorkers(pidFile), workers |-> {}]
    /\ UNCHANGED <<jobs, config, dbLock, now, pc, running, raising, job, cfg,
                   acqNow, got, cli, runs, kills, call, delays, retried>>

\* get_worker_status, one turn of "for pid in pids": the pid is probed
\* again, and a process found running gets an entry (the probe takes the
\* 0.1 s of cpu_percent).
StatusProbeAlways(w) == TRUE
StatusProbe(w) == IsProcessRunning(w)

MgrStatusProbe ==
    /\ mgr.op = "status"
    /\ mgr.todo # {}
    /\ LET w == LeastOf(mgr.todo)
       IN  mgr' = [mgr EXCEPT !.todo = @ \ {w},
                              !.workers = IF StatusProbe(w)
                                          THEN @ \cup {w} ELSE @]
    /\ UNCHANGED <<jobs, config, dbLock, now, pc, running, raising, job, cfg,
                   acqNow, got, cli, runs, kills, pidFile, call, delays, retried>>

\* get_worker_status returns mgr.workers.
MgrStatusEnd ==
    /\ mgr.op = "status"
    /\ mgr.todo = {}
    /\ mgr' = [mgr EXCEPT !.op = "reported"]
    /\ UNCHANGED <<jobs, config, dbLock, now, pc, running, raising, job, cfg,
                   acqNow, got, cli, runs, kills, pidFile, call, delays, retried>>

\* worker status prints the table (or "No workers running") and ends.
MgrStatusReturn ==
    /\ mgr.op = "reported"
    /\ mgr' = [MgrIdle EXCEPT !.call = mgr.call]
    /\ UNCHANGED <<jobs, config, dbLock, now, pc, running, raising, job, cfg,
                   acqNow, got, cli, runs, kills, pidFile, call, delays, retried>>

--------------------------------------------------------------------------
(***************************************************************************)
(* The clock.                                                              *)
(***************************************************************************)
Elapsed == now - StartOfRun

Tick ==
    /\ Elapsed < MaxTicks
    /\ now' = now + 1
    /\ UNCHANGED <<jobs, config, dbLock, pc, running, raising, job, cfg,
                   acqNow, got, cli, runs, kills, supVars, delays, retried>>

\* A long quiet period: just over the stale-lock window passes at once.
Jump ==
    /\ Elapsed \div JumpTicks < MaxJumps
    /\ now' = now + JumpTicks
    /\ UNCHANGED <<jobs, config, dbLock, pc, running, raising, job, cfg,
                   acqNow, got, cli, runs, kills, supVars, delays, retried>>

--------------------------------------------------------------------------
(***************************************************************************)
(* The control surface (cli.py).  Every command is a process of its own,   *)
(* whose store statements interleave with the workers' and with those of   *)
(* a command another operator runs at the same time.                       *)
(***************************************************************************)
Operators == 1..NumOperators

Idle == [op |-> "idle"]

\* click.echo("Error: ...", err=True) is done and sys.exit(1) is next.
Rejected(cmd, id) == [op |-> "exit", code |-> 1, cmd |-> cmd, id |-> id]

\* sys.exit(1): the command's process ends.
CliExit(o) ==
    /\ cli[o].op = "exit"
    /\ cli' = [cli EXCEPT ![o] = Idle]
    /\ UNCHANGED <<jobs, config, dbLock, now, pc, running, raising, job, cfg,
                   acqNow, got, runs, kills, supVars, delays, retried>>

\* The JSON job descriptions the operator passes to enqueue.
JobData ==
    { [command |-> "true"],
      [command |-> "false", max_retries |-> 1],
      [command |-> "flaky", max_retries |-> 2, priority |-> 1, timeout |-> 1],
      [command |-> "false", state |-> DEAD],
      [command |-> "true", state |-> "paused"] }

Has(d, key) == key \in DOMAIN d

\* enqueue, up to Job.from_dict(job_data): the defaults enqueue fills in,
\* then every key naming a dataclass field is passed to the constructor.
JobFromData(d, id, conf, t) ==
    [id |-> id,
     command |-> d.command,
     state |-> IF Has(d, "state") THEN d.state ELSE PENDING,
     attempts |-> IF Has(d, "attempts") THEN d.attempts ELSE 0,
     max_retries |-> IF Has(d, "max_retries") THEN d.max_retries
                                               ELSE conf.max_retries,
     timeout |-> IF Has(d, "timeout") THEN d.timeout ELSE NULL,
     priority |-> IF Has(d, "priority") THEN d.priority ELSE DefaultPriority,
     created_at |-> IF Has(d, "created_at") THEN d.created_at ELSE t,
     next_retry_at |-> IF Has(d, "next_retry_at") THEN d.next_retry_at
                                                   ELSE NULL,
     error_message |-> IF Has(d, "error_message") THEN d.error_message
                                                   ELSE NullText,
     locked_by |-> NULL,
     locked_at |-> NULL]

\* enqueue: build the job, then existing_job = storage.get_job(job.id);
\* an existing id is rejected (exit 1).
EnqueueGet(o, d, id) ==
    /\ cli[o] = Idle
    /\ DbFree
    /\ cli' = [cli EXCEPT
                 ![o] = IF id \in DOMAIN jobs
                        THEN Rejected("enqueue", id)
                        ELSE [op |-> "enqueue",
                              job |-> JobFromData(d, id, config, now)]]
    /\ UNCHANGED <<jobs, config, dbLock, now, pc, running, raising, job, cfg,
                   acqNow, got, runs, kills, supVars, delays, retried>>

\* enqueue: storage.save_job(job)
EnqueuePut(o) ==
    /\ cli[o].op = "enqueue"
    /\ DbFree
    /\ jobs' = SaveJob(jobs, cli[o].job)
    /\ runs' = [runs EXCEPT ![cli[o].job.id] = 0]
    /\ delays' = [delays EXCEPT ![cli[o].job.id] = NULL]
    /\ retried' = [retried EXCEPT ![cli[o].job.id] = NoRetry]
    /\ cli' = [cli EXCEPT ![o] = Idle]
    /\ UNCHANGED <<config, dbLock, now, pc, running, raising, job, cfg,
                   acqNow, got, kills, supVars>>

\* dlq retry: the test on the job storage.get_job returned.
RetryAllowedWhenFailed(table, id) ==
    id \in DOMAIN table /\ table[id].state \in {DEAD, FAILED}
RetryAllowed(table, id) ==
    id \in DOMAIN table /\ table[id].state = DEAD

\* dlq retry: the Job object is reset for the put.
ResetForRetryAlways(j, reset_attempts) ==
    [j EXCEPT !.state = PENDING, !.error_message = NullText,
              !.next_retry_at = NULL, !.attempts = 0]
ResetForRetry(j, reset_attempts) ==
    [j EXCEPT !.state = PENDING, !.error_message = NullText,
              !.next_retry_at = NULL,
              !.attempts = IF reset_attempts THEN 0 ELSE @]

\* dlq retry: job = storage.get_job(job_id); an unknown id or a job that
\* is not dead is rejected (exit 1); else the Job object is reset.
\* (The attempt counter is capped: a dead job at the cap is left alone.)
DlqRetryGet(o, id, reset_attempts) ==
    /\ cli[o] = Idle
    /\ DbFree
    /\ RetryAllowed(jobs, id) => jobs[id].attempts < MaxAttempts
    /\ cli' = [cli EXCEPT
                 ![o] = IF RetryAllowed(jobs, id)
                        THEN [op |-> "dlq_retry",
                              reset |-> reset_attempts,
                              job |-> ResetForRetry(JobFromRow(jobs[id]),
                                                    reset_attempts)]
                        ELSE Rejected("dlq_retry", id)]
    /\ UNCHANGED <<jobs, config, dbLock, now, pc, running, raising, job, cfg,
                   acqNow, got, runs, kills, supVars, delays, retried>>

\* dlq retry: storage.save_job(job)
DlqRetryPut(o) ==
    /\ cli[o].op = "dlq_retry"
    /\ DbFree
    /\ jobs' = SaveJob(jobs, cli[o].job)
    /\ delays' = [delays EXCEPT ![cli[o].job.id] = NULL]
    /\ retried' = [retried EXCEPT
                      ![cli[o].job.id] =
                          [attempts |-> IF cli[o].job.id \in DOMAIN jobs
                                        THEN jobs[cli[o].job.id].attempts
                                        ELSE NULL,
                           reset |-> cli[o].reset,
                           fails |-> 0]]
    /\ cli' = [cli EXCEPT ![o] = Idle]
    /\ UNCHANGED <<config, dbLock, now, pc, running, raising, job, cfg,
                   acqNow, got, runs, kills, supVars>>

\* config set KEY VALUE: get_config, cast, save_config.
ConfigChoices == {<<"backoff_base", 1>>, <<"max_retries", 1>>}
ConfigSet(o, key, value) ==
    /\ cli[o] = Idle
    /\ DbFree
    /\ config' = [config EXCEPT ![key] = value]
    /\ UNCHANGED <<jobs, dbLock, now, pc, running, raising, job, cfg, acqNow,
                   got, cli, runs, kills, supVars, delays, retried>>

\* delete_job: DELETE FROM jobs WHERE id = ?
DeleteJob(table, id) == [i \in DOMAIN table \ {id} |-> table[i]]

\* The rows clear lists: get_all_jobs(), or get_jobs_by_state(state) for
\* clear --state S and for dlq clear (S = dead); NullText is no --state.
ClearListed(table, state) ==
    {i \in DOMAIN table : state = NullText \/ table[i].state = state}

\* clear [--state S] and dlq clear, up to the loop: the jobs are listed;
\* with none listed the command reports it and ends.
ClearGet(o, state) ==
    /\ cli[o] = Idle
    /\ DbFree
    /\ ClearListed(jobs, state) # {}
    /\ cli' = [cli EXCEPT ![o] = [op |-> "clear", state |-> state,
                                  todo |-> ClearListed(jobs, state)]]
    /\ UNCHANGED <<jobs, config, dbLock, now, pc, running, raising, job, cfg,
                   acqNow, got, runs, kills, supVars, delays, retried>>

\* clear, one turn of "for job in jobs: storage.delete_job(job.id)"; after
\* the last turn the count is printed and the command ends.
ClearDelete(o) ==
    /\ cli[o].op = "clear"
    /\ DbFree
    /\ \E i \in cli[o].todo :
          /\ jobs' = DeleteJob(jobs, i)
          /\ cli' = [cli EXCEPT
                       ![o] = IF cli[o].todo = {i} THEN Idle
                              ELSE [@ EXCEPT !.todo = @ \ {i}]]
    /\ UNCHANGED <<config, dbLock, now, pc, running, raising, job, cfg,
                   acqNow, got, runs, kills, supVars, delays, retried>>

--------------------------------------------------------------------------
(***************************************************************************)
(* The system.                                                             *)
(***************************************************************************)
EmptyTable == [i \in {} |-> NoJob]

Init ==
    /\ jobs = EmptyTable
    /\ config = DefaultConfig
    /\ dbLock = NULL
    /\ now = StartOfRun
    /\ pc = [w \in Workers |-> "down"]
    /\ running = [w \in Workers |-> FALSE]
    /\ raising = [w \in Workers |-> FALSE]
    /\ job = [w \in Workers |-> NoJob]
    /\ cfg = [w \in Workers |-> WorkerConfig(DefaultConfig)]
    /\ acqNow = [w \in Workers |-> NULL]
    /\ got = [w \in Workers |-> NoJob]
    /\ cli = [o \in Operators |-> Idle]
    /\ runs = [i \in JobIds |-> 0]
    /\ delays = [i \in JobIds |-> NULL]
    /\ retried = [i \in JobIds |-> NoRetry]
    /\ kills = <<>>
    /\ SupervisorInit

WorkerStep(w) ==
    \/ Start(w)
    \/ LoopHead(w)
    \/ AcquireSelect(w)
    \/ AcquireCommit(w)
    \/ ExecuteBegin(w)
    \/ ExecuteEnd(w)
    \/ Save(w)
    \/ Release(w)

Next ==
    \/ \E w \in Workers : WorkerStep(w)
    \/ \E w \in Workers : SaveFails(w)
    \/ \E d \in JobData, i \in EnqueueIds : EnqueueGet(1, d, i)
    \/ EnqueuePut(1)
    \/ \E i \in EnqueueIds, r \in BOOLEAN : DlqRetryGet(1, i, r)
    \/ DlqRetryPut(1)
    \/ ConfigSet(1, "backoff_base", 1)
    \/ CliExit(1)
    \/ Tick

Spec == Init /\ [][Next]_vars

--------------------------------------------------------------------------
(***************************************************************************)
(* Deletion: the operator enqueues, retries from the DLQ and clears (all   *)
(* jobs, or the dead ones as dlq clear does) while a worker runs.          *)
(***************************************************************************)
ClearNext ==
    \/ WorkerStep(1)
    \/ \E d \in JobData, i \in EnqueueIds : EnqueueGet(1, d, i)
    \/ EnqueuePut(1)
    \/ \E i \in EnqueueIds, r \in BOOLEAN : DlqRetryGet(1, i, r)
    \/ DlqRetryPut(1)
    \/ \E s \in {NullText, DEAD} : ClearGet(1, s)
    \/ ClearDelete(1)
    \/ CliExit(1)

ClearSpec == Init /\ [][ClearNext]_vars

--------------------------------------------------------------------------
(***************************************************************************)
(* Every writer of the lock columns: workers that acquire, put, release    *)
(* and reap, may fail to save and may be killed, beside the commands that  *)
(* store jobs, over a period longer than the stale-lock window.            *)
(***************************************************************************)
LockNext ==
    \/ \E w \in Workers : WorkerStep(w)
    \/ \E w \in Workers : SaveFails(w)
    \/ \E w \in Workers : Kill(w)
    \/ \E d \in JobData, i \in EnqueueIds : EnqueueGet(1, d, i)
    \/ EnqueuePut(1)
    \/ \E i \in EnqueueIds, r \in BOOLEAN : DlqRetryGet(1, i, r)
    \/ DlqRetryPut(1)
    \/ CliExit(1)
    \/ Jump

LockSpec == Init /\ [][LockNext]_vars

--------------------------------------------------------------------------
(***************************************************************************)
(* Concurrent commands: two operators run enqueue at the same time, each   *)
(* command a process of its own, while a worker runs.                      *)
(***************************************************************************)
RaceNext ==
    \/ WorkerStep(1)
    \/ \E o \in Operators, d \in JobData, i \in EnqueueIds : EnqueueGet(o, d, i)
    \/ \E o \in Operators : EnqueuePut(o)
    \/ \E o \in Operators : CliExit(o)

RaceSpec == Init /\ [][RaceNext]_vars

--------------------------------------------------------------------------
(***************************************************************************)
(* The store's callers: a worker, enqueue, dlq retry, and a client that    *)
(* gets a job and puts back what it got.                                   *)
(***************************************************************************)
\* The columns get_job SELECTs (updated_at is not modelled).
GetColumns ==
    {"id", "command", "state", "attempts", "max_retries", "timeout",
     "priority", "created_at", "next_retry_at", "error_message"}

\* job = storage.get_job(id), for a stored id.
StoreGet(o, id) ==
    /\ cli[o] = Idle
    /\ DbFree
    /\ id \in DOMAIN jobs
    /\ cli' = [cli EXCEPT ![o] = [op |-> "put", job |-> JobFromRow(jobs[id])]]
    /\ UNCHANGED <<jobs, config, dbLock, now, pc, running, raising, job, cfg,
                   acqNow, got, runs, kills, supVars, delays, retried>>

\* storage.save_job(job)
StorePut(o) ==
    /\ cli[o].op = "put"
    /\ DbFree
    /\ jobs' = SaveJob(jobs, cli[o].job)
    /\ cli' = [cli EXCEPT ![o] = Idle]
    /\ UNCHANGED <<config, dbLock, now, pc, running, raising, job, cfg,
                   acqNow, got, runs, kills, supVars, delays, retried>>

StoreNext ==
    \/ WorkerStep(1)
    \/ \E d \in JobData, i \in EnqueueIds : EnqueueGet(1, d, i)
    \/ EnqueuePut(1)
    \/ \E i \in EnqueueIds, r \in BOOLEAN : DlqRetryGet(1, i, r)
    \/ DlqRetryPut(1)
    \/ \E i \in EnqueueIds : StoreGet(1, i)
    \/ StorePut(1)
    \/ CliExit(1)

StoreSpec == Init /\ [][StoreNext]_vars

--------------------------------------------------------------------------
(***************************************************************************)
(* Crashes: workers run a small batch, a process may be killed at any      *)
(* point, and workers may be started again.  A live worker keeps taking    *)
(* steps: it may wait for the database, but not for ever.                  *)
(***************************************************************************)
CrashStore ==
    [i \in JobIds |->
        IF i = 1 THEN [Job(i, "false", StartOfRun - 1) EXCEPT !.priority = 1]
                 ELSE Job(i, "true", StartOfRun - 1)]

CrashInit ==
    /\ jobs = CrashStore
    /\ config \in {[DefaultConfig EXCEPT !.backoff_base = b] :
                      b \in {1, LastSecond + 1}}
    /\ dbLock = NULL
    /\ now = StartOfRun
    /\ pc = [w \in Workers |-> "down"]
    /\ running = [w \in Workers |-> FALSE]
    /\ raising = [w \in Workers |-> FALSE]
    /\ job = [w \in Workers |-> NoJob]
    /\ cfg = [w \in Workers |-> WorkerConfig(DefaultConfig)]
    /\ acqNow = [w \in Workers |-> NULL]
    /\ got = [w \in Workers |-> NoJob]
    /\ cli = [o \in Operators |-> Idle]
    /\ runs = [i \in JobIds |-> 0]
    /\ delays = [i \in JobIds |-> NULL]
    /\ retried = [i \in JobIds |-> NoRetry]
    /\ kills = <<>>
    /\ SupervisorInit

\* The steps of a process that is up.
Run(w) ==
    \/ LoopHead(w)
    \/ AcquireSelect(w)
    \/ AcquireCommit(w)
    \/ ExecuteBegin(w)
    \/ ExecuteEnd(w)
    \/ Save(w)
    \/ Release(w)

CrashNext ==
    \/ \E w \in Workers : Start(w)
    \/ \E w \in Workers : Run(w)
    \/ \E w \in Workers : Kill(w)
    \/ Jump

CrashSpec ==
    /\ CrashInit
    /\ [][CrashNext]_vars
    /\ \A w \in Workers : SF_vars(Run(w))

--------------------------------------------------------------------------
(***************************************************************************)
(* The control surface in full, beside one worker.                         *)
(***************************************************************************)
SurfaceNext ==
    \/ WorkerStep(1)
    \/ \E d \in JobData, i \in EnqueueIds : EnqueueGet(1, d, i)
    \/ EnqueuePut(1)
    \/ \E i \in EnqueueIds, r \in BOOLEAN : DlqRetryGet(1, i, r)
    \/ DlqRetryPut(1)
    \/ \E c \in ConfigChoices : ConfigSet(1, c[1], c[2])
    \/ CliExit(1)
    \/ Tick

SurfaceSpec == Init /\ [][SurfaceNext]_vars

--------------------------------------------------------------------------
(***************************************************************************)
(* A batch: M pending jobs are in the store, then N workers are started    *)
(* (worker start --count N) and run undisturbed.                           *)
(***************************************************************************)
BatchRows(i) ==
    { [Job(i, "true", StartOfRun - TicksPerSecond) EXCEPT !.priority = 1],
      [Job(i, "false", StartOfRun - 1) EXCEPT
          !.priority = 1, !.max_retries = 1],
      [Job(i, "false", StartOfRun - TicksPerSecond) EXCEPT !.max_retries = 2],
      Job(i, "true", StartOfRun - 1) }

BatchStores == {t \in [JobIds -> UNION {BatchRows(i) : i \in JobIds}] :
                   \A i \in JobIds : t[i].id = i}

BatchInit ==
    /\ jobs \in BatchStores
    /\ config \in {[DefaultConfig EXCEPT !.backoff_base = b] :
                      b \in {1, LastSecond + 1}}
    /\ dbLock = NULL
    /\ now = StartOfRun
    /\ pc = [w \in Workers |-> "down"]
    /\ running = [w \in Workers |-> FALSE]
    /\ raising = [w \in Workers |-> FALSE]
    /\ job = [w \in Workers |-> NoJob]
    /\ cfg = [w \in Workers |-> WorkerConfig(DefaultConfig)]
    /\ acqNow = [w \in Workers |-> NULL]
    /\ got = [w \in Workers |-> NoJob]
    /\ cli = [o \in Operators |-> Idle]
    /\ runs = [i \in JobIds |-> 0]
    /\ delays = [i \in JobIds |-> NULL]
    /\ retried = [i \in JobIds |-> NoRetry]
    /\ kills = <<>>
    /\ SupervisorInit

BatchNext ==
    \/ \E w \in Workers : WorkerStep(w)
    \/ Tick

BatchSpec == BatchInit /\ [][BatchNext]_vars

--------------------------------------------------------------------------
(***************************************************************************)
(* A batch run by one worker that may be killed at any point and started   *)
(* again: no second worker, no command of the operator.                    *)
(***************************************************************************)
KillNext ==
    \/ WorkerStep(1)
    \/ Kill(1)

KillSpec == BatchInit /\ [][KillNext]_vars

--------------------------------------------------------------------------
(***************************************************************************)
(* Concurrent acquire_job calls and nothing else: every worker is in its   *)
(* loop and calls acquire_job until it is given a job.                     *)
(***************************************************************************)
AcquireRows(i) ==
    { Job(i, "true", StartOfRun - 1),
      [Job(i, "false", StartOfRun - TicksPerSecond) EXCEPT !.priority = 1],
      [Job(i, "false", StartOfRun - 1) EXCEPT
          !.state = FAILED, !.attempts = 1,
          !.next_retry_at = StartOfRun + 1,
          !.error_message = "Exit code: 1"],
      [Job(i, "true", StartOfRun - 1) EXCEPT
          !.state = COMPLETED, !.attempts = 1] }

AcquireStores == {t \in [JobIds -> UNION {AcquireRows(i) : i \in JobIds}] :
                     \A i \in JobIds : t[i].id = i}

AcquireInit ==
    /\ jobs \in AcquireStores
    /\ config = DefaultConfig
    /\ dbLock = NULL
    /\ now = StartOfRun
    /\ pc = [w \in Workers |-> "loop"]
    /\ running = [w \in Workers |-> TRUE]
    /\ raising = [w \in Workers |-> FALSE]
    /\ job = [w \in Workers |-> NoJob]
    /\ cfg = [w \in Workers |-> WorkerConfig(DefaultConfig)]
    /\ acqNow = [w \in Workers |-> NULL]
    /\ got = [w \in Workers |-> NoJob]
    /\ cli = [o \in Operators |-> Idle]
    /\ runs = [i \in JobIds |-> 0]
    /\ delays = [i \in JobIds |-> NULL]
    /\ retried = [i \in JobIds |-> NoRetry]
    /\ kills = <<>>
    /\ SupervisorInit

AcquireNext ==
    \/ \E w \in Workers : LoopHead(w)
    \/ \E w \in Workers : AcquireSelect(w)
    \/ \E w \in Workers : AcquireCommit(w)
    \/ Tick
    \/ Jump

AcquireSpec == AcquireInit /\ [][AcquireNext]_vars

--------------------------------------------------------------------------
(***************************************************************************)
(* The claims of the specification, C1 to C10.                             *)
(***************************************************************************)

\* C1 (BatchSpec): at most one live worker is between its acquire of a
\* given job id and its put of that job, except when the earlier holder's
\* lock is older than 5 minutes.
C1_AtMostOneWorkerPerJob ==
    \A v, w \in Workers :
        (v # w /\ Holding(v) /\ Holding(w) /\ job[v].id = job[w].id)
            => \/ now - got[v].locked_at > StaleLockSeconds * TicksPerSecond
               \/ now - got[w].locked_at > StaleLockSeconds * TicksPerSecond

\* C2 (AcquireSpec): when only acquire calls of different workers
\* interleave, the select-and-lock steps of two calls never overlap, and
\* no two calls return the same job id.
C2_AcquireAtomic ==
    \A v, w \in Workers :
        v # w =>
            /\ ~(pc[v] = "commit" /\ pc[w] = "commit")
            /\ (got[v] # NoJob /\ got[w] # NoJob) => got[v].id # got[w].id

\* Two concurrent calls have each returned a job.
C2_Witness ==
    \E v, w \in Workers :
        /\ v # w
        /\ pc[v] = "execute" /\ got[v] # NoJob
        /\ pc[w] = "execute" /\ got[w] # NoJob

\* C3 (BatchSpec): with N workers started together on M pending jobs, a
\* command is executed exactly once per counted attempt, and a job whose
\* command succeeds is executed once in total.
C3_ExactlyOnce ==
    \A i \in DOMAIN jobs :
        /\ jobs[i].command = "true" => runs[i] <= 1
        /\ (\A w \in Workers : job[w] = NoJob \/ job[w].id # i)
               => runs[i] = jobs[i].attempts

\* C4 (BatchSpec): acquire never returns a job stored as failed whose
\* next_retry_at is later than the time of the acquire, and at an acquire
\* every unlocked failed job whose next_retry_at is null or not later than
\* that time is eligible.
C4_RetryTimeDiscipline ==
    [][\A w \in Workers :
          (pc[w] = "begin" /\ pc'[w] = "commit") =>
              /\ (job'[w] # NoJob /\ job'[w].state = FAILED
                      /\ job'[w].next_retry_at # NULL)
                     => job'[w].next_retry_at <= acqNow[w]
              /\ \A i \in DOMAIN jobs :
                    (/\ jobs[i].state = FAILED
                     /\ jobs[i].locked_by = NULL
                     /\ \/ jobs[i].next_retry_at = NULL
                        \/ jobs[i].next_retry_at <= acqNow[w])
                        => Eligible(jobs[i], acqNow[w], now)]_vars

\* C5 (BatchSpec): whenever acquire returns a job, no other job eligible at
\* that instant has a strictly smaller (priority, created_at) pair, and
\* acquire returns absent only when no job is eligible.
C5_PriorityDispatch ==
    [][\A w \in Workers :
          (pc[w] = "begin" /\ pc'[w] = "commit") =>
              LET due(r) ==
                      \/ r.state = PENDING
                      \/ /\ r.state = FAILED
                         /\ \/ r.next_retry_at = NULL
                            \/ r.next_retry_at <= acqNow[w]
                  free(r) ==
                      \/ r.locked_by = NULL
                      \/ /\ r.locked_at # NULL
                         /\ r.locked_at
                                < now - StaleLockSeconds * TicksPerSecond
                  eligible ==
                      {i \in DOMAIN jobs : due(jobs[i]) /\ free(jobs[i])}
                  smaller(a, b) ==
                      \/ a.priority < b.priority
                      \/ /\ a.priority = b.priority
                         /\ a.created_at < b.created_at
              IN  IF job'[w] = NoJob
                  THEN eligible = {}
                  ELSE \A k \in eligible :
                          ~smaller(jobs[k], jobs[job'[w].id])]_vars

\* C6 (BatchSpec): after a non-success attempt the job has attempts
\* incremented by exactly 1 and is dead with next_retry_at null when the
\* new attempts >= max_retries, and otherwise failed with next_retry_at =
\* now + backoff_base^(new attempts) seconds; the put persists that job.
C6_RetryRule ==
    [][\A w \in Workers :
          /\ (pc[w] = "running" /\ pc'[w] = "save"
                  /\ job'[w].state # COMPLETED) =>
                 /\ job'[w].attempts = got[w].attempts + 1
                 /\ IF job'[w].attempts >= job'[w].max_retries
                    THEN /\ job'[w].state = DEAD
                         /\ job'[w].next_retry_at = NULL
                    ELSE /\ job'[w].state = FAILED
                         /\ job'[w].next_retry_at =
                                now + Pow(cfg[w].backoff_base,
                                          job'[w].attempts) * TicksPerSecond
          /\ (pc[w] = "save" /\ pc'[w] = "release" /\ jobs' # jobs) =>
                 /\ jobs'[job[w].id].state = job[w].state
                 /\ jobs'[job[w].id].attempts = job[w].attempts
                 /\ jobs'[job[w].id].next_retry_at = job[w].next_retry_at]_vars

\* C7 (Spec): after an attempt whose command exits with code 0 the
\* persisted job is completed with error_message null and next_retry_at
\* null, also when the job had failed earlier attempts.
C7_SuccessOutcome ==
    [][\A w \in Workers :
          (pc[w] = "save" /\ pc'[w] = "release" /\ jobs' # jobs
               /\ job[w].state = COMPLETED) =>
              /\ jobs'[job[w].id].state = COMPLETED
              /\ jobs'[job[w].id].error_message = NullText
              /\ jobs'[job[w].id].next_retry_at = NULL]_vars

\* C8 (Spec): in every store state a job is processing if and only if its
\* locked_by and locked_at are set.
C8_LockCoherence ==
    \A i \in DOMAIN jobs :
        (jobs[i].state = PROCESSING)
            <=> (jobs[i].locked_by # NULL /\ jobs[i].locked_at # NULL)

\* C9 (BatchSpec): in every store state next_retry_at is non-null only for
\* jobs in state failed.
C9_RetryTimeOnlyWhenFailed ==
    \A i \in DOMAIN jobs :
        jobs[i].next_retry_at # NULL => jobs[i].state = FAILED

\* C10 (Spec): in every store state every dead job has attempts >=
\* max_retries.
C10_AttemptBoundAtTerminal ==
    \A i \in DOMAIN jobs :
        jobs[i].state = DEAD => jobs[i].attempts >= jobs[i].max_retries

--------------------------------------------------------------------------
(***************************************************************************)
(* Graceful shutdown: workers run a small batch and a termination signal   *)
(* may reach any of them at any point.                                     *)
(***************************************************************************)
ShutdownNext ==
    \/ \E w \in Workers : Start(w)
    \/ \E w \in Workers : Run(w)
    \/ \E w \in Workers : SaveFails(w)
    \/ \E w \in Workers : Shutdown(w)

ShutdownSpec == CrashInit /\ [][ShutdownNext]_vars

--------------------------------------------------------------------------
(***************************************************************************)
(* Supervision: the operator calls start_workers, one call at a time; the  *)
(* spawned workers run one job, and stop on a signal or a kill.            *)
(***************************************************************************)
SupervisedInit ==
    /\ jobs = [i \in {1} |-> Job(i, "true", StartOfRun - 1)]
    /\ config = DefaultConfig
    /\ dbLock = NULL
    /\ now = StartOfRun
    /\ pc = [w \in Workers |-> "down"]
    /\ running = [w \in Workers |-> FALSE]
    /\ raising = [w \in Workers |-> FALSE]
    /\ job = [w \in Workers |-> NoJob]
    /\ cfg = [w \in Workers |-> WorkerConfig(DefaultConfig)]
    /\ acqNow = [w \in Workers |-> NULL]
    /\ got = [w \in Workers |-> NoJob]
    /\ cli = [o \in Operators |-> Idle]
    /\ runs = [i \in JobIds |-> 0]
    /\ delays = [i \in JobIds |-> NULL]
    /\ retried = [i \in JobIds |-> NoRetry]
    /\ kills = <<>>
    /\ SupervisorInit

SupervisedNext ==
    \/ \E count \in 1..NumWorkers : MgrStartCheck(count)
    \/ MgrSpawn
    \/ MgrPoll
    \/ MgrSave
    \/ MgrReturn
    \/ \E w \in Workers : Boot(w)
    \/ \E w \in Workers : Run(w)
    \/ \E w \in Workers : Shutdown(w)
    \/ \E w \in Workers : Kill(w)

SupervisedSpec == SupervisedInit /\ [][SupervisedNext]_vars

--------------------------------------------------------------------------
(***************************************************************************)
(* Start and status: the operator calls start_workers and worker status,   *)
(* one call at a time, while the workers run, exit or are killed.          *)
(***************************************************************************)
StatusNext ==
    \/ \E count \in 1..NumWorkers : MgrStartCheck(count)
    \/ MgrSpawn
    \/ MgrPoll
    \/ MgrSave
    \/ MgrReturn
    \/ MgrStatusCheck
    \/ MgrStatusProbe
    \/ MgrStatusEnd
    \/ MgrStatusReturn
    \/ \E w \in Workers : Boot(w)
    \/ \E w \in Workers : Run(w)
    \/ \E w \in Workers : Shutdown(w)
    \/ \E w \in Workers : Kill(w)

StatusSpec == SupervisedInit /\ [][StatusNext]_vars

--------------------------------------------------------------------------
(***************************************************************************)
(* Start and stop: the operator calls start_workers and stop_workers, one  *)
(* call at a time, while the workers run, exit or are killed.              *)
(***************************************************************************)
StopNext ==
    \/ \E count \in 1..NumWorkers : MgrStartCheck(count)
    \/ MgrSpawn
    \/ MgrPoll
    \/ MgrSave
    \/ MgrReturn
    \/ \E graceful \in BOOLEAN : MgrStopCheck(graceful)
    \/ MgrStopSkip
    \/ MgrStopTerm
    \/ MgrStopKill
    \/ MgrStopPoll
    \/ MgrStopFinal
    \/ MgrStopUnlink
    \/ MgrStopReturn
    \/ \E w \in Workers : Boot(w)
    \/ \E w \in Workers : Run(w)
    \/ \E w \in Workers : Shutdown(w)
    \/ \E w \in Workers : Kill(w)

StopSpec == SupervisedInit /\ [][StopNext]_vars

--------------------------------------------------------------------------
(***************************************************************************)
(* The retry state machine to its end: one worker that is never killed     *)
(* runs a batch of a job that always fails and a job of any outcome; the   *)
(* worker keeps taking steps, and while a retry is not due yet time        *)
(* passes until it is.                                                     *)
(***************************************************************************)
LiveStore ==
    [i \in JobIds |->
        IF i = 1 THEN [Job(i, "false", StartOfRun - 1) EXCEPT !.priority = 1]
                 ELSE Job(i, "flaky", StartOfRun - 1)]

LiveInit ==
    /\ jobs = LiveStore
    /\ config = DefaultConfig
    /\ dbLock = NULL
    /\ now = StartOfRun
    /\ pc = [w \in Workers |-> "down"]
    /\ running = [w \in Workers |-> FALSE]
    /\ raising = [w \in Workers |-> FALSE]
    /\ job = [w \in Workers |-> NoJob]
    /\ cfg = [w \in Workers |-> WorkerConfig(DefaultConfig)]
    /\ acqNow = [w \in Workers |-> NULL]
    /\ got = [w \in Workers |-> NoJob]
    /\ cli = [o \in Operators |-> Idle]
    /\ runs = [i \in JobIds |-> 0]
    /\ delays = [i \in JobIds |-> NULL]
    /\ retried = [i \in JobIds |-> NoRetry]
    /\ kills = <<>>
    /\ SupervisorInit

\* time.sleep(worker_poll_interval) with nothing to acquire: time passes
\* until the retry of a failed job is due.
Sleep ==
    /\ \E i \in DOMAIN jobs :
          /\ jobs[i].state = FAILED
          /\ jobs[i].next_retry_at # NULL
          /\ jobs[i].next_retry_at > now
          /\ now' = jobs[i].next_retry_at
    /\ UNCHANGED <<jobs, config, dbLock, pc, running, raising, job, cfg,
                   acqNow, got, cli, runs, kills, supVars, delays, retried>>

LiveNext ==
    \/ Start(1)
    \/ Run(1)
    \/ SaveFails(1)
    \/ Sleep

LiveSpec ==
    /\ LiveInit
    /\ [][LiveNext]_vars
    /\ WF_vars(Start(1))
    /\ WF_vars(Run(1))
    /\ WF_vars(Sleep)

--------------------------------------------------------------------------
(***************************************************************************)
(* Retries under a changing configuration: one worker runs the batch while *)
(* the operator may set backoff_base.                                      *)
(***************************************************************************)
BackoffNext ==
    \/ Start(1)
    \/ Run(1)
    \/ Sleep
    \/ ConfigSet(1, "backoff_base", 1)

BackoffSpec == LiveInit /\ [][BackoffNext]_vars

--------------------------------------------------------------------------
(***************************************************************************)
(* The claims of the specification, C11 to C20.                            *)
(***************************************************************************)

\* C11 (BatchSpec): once a job is stored as dead, no step other than the
\* put of a dlq retry on it, or its deletion, changes its state: no worker
\* acquire, put, release or reap does.
C11_DlqTerminality ==
    [][\A i \in DOMAIN jobs :
          jobs[i].state = DEAD =>
              \/ i \notin DOMAIN jobs'
              \/ jobs'[i].state = DEAD
              \/ \E o \in Operators :
                    /\ cli[o].op = "dlq_retry"
                    /\ cli[o].job.id = i
                    /\ cli'[o] = Idle]_vars

\* C12 (CrashSpec): a job left in processing by a worker that died without
\* saving or releasing is eligible for acquire once its locked_at is more
\* than 5 minutes old, with no reap having run.
C12_StaleLockSelfHealing ==
    \A i \in DOMAIN jobs :
        (/\ jobs[i].state = PROCESSING
         /\ jobs[i].locked_by # NULL
         /\ pc[jobs[i].locked_by] = "down"
         /\ now - jobs[i].locked_at > StaleLockSeconds * TicksPerSecond)
            => Eligible(jobs[i], now, now)

\* C13 (CrashSpec): a job whose worker was killed while executing its first
\* attempt is, once a later worker start has made it failed with no lock
\* (no attempt of it was ever saved, no worker has it in hand), eventually
\* executed again when the workers keep taking steps.
C13_CrashRecovery ==
    \A i \in JobIds :
        (/\ \E k \in 1..Len(kills) : kills[k] = i
         /\ jobs[i].state = FAILED
         /\ jobs[i].attempts = 0
         /\ jobs[i].locked_by = NULL
         /\ \A w \in Workers : job[w].id # i
         /\ \E w \in Workers : pc[w] # "down")
            ~> (\E w \in Workers : pc[w] = "running" /\ job[w].id = i)

\* C14 (SurfaceSpec): dlq retry on a dead job stores it with state pending,
\* error_message null, next_retry_at null, no lock, attempts 0 when
\* --reset-attempts is given and the attempts it read otherwise; id, command,
\* max_retries, priority, timeout and created_at are those it read.
C14_DlqRetryFrame ==
    [][\A o \in Operators :
          /\ (cli[o] = Idle /\ cli'[o].op = "dlq_retry") =>
                LET j == cli'[o].job
                    row == jobs[j.id]
                IN  /\ j.state = PENDING
                    /\ j.error_message = NullText
                    /\ j.next_retry_at = NULL
                    /\ j.attempts = IF cli'[o].reset THEN 0 ELSE row.attempts
                    /\ j.command = row.command
                    /\ j.max_retries = row.max_retries
                    /\ j.priority = row.priority
                    /\ j.timeout = row.timeout
                    /\ j.created_at = row.created_at
          /\ (cli[o].op = "dlq_retry" /\ cli'[o] = Idle) =>
                LET j == cli[o].job
                IN  jobs'[j.id] = [j EXCEPT !.locked_by = NULL,
                                            !.locked_at = NULL]]_vars

\* A dead job that had used attempts was retried without --reset-attempts
\* and is stored pending, its attempts kept.
C14_Witness ==
    \E i \in DOMAIN jobs :
        /\ jobs[i].state = PENDING
        /\ jobs[i].attempts > 0
        /\ jobs[i].error_message = NullText
        /\ jobs[i].next_retry_at = NULL
        /\ jobs[i].locked_by = NULL

\* C15 (SurfaceSpec): dlq retry on an unknown id or on a job that is not
\* dead is rejected (exit 1) and no step of the command changes the store;
\* only a dead job is taken up for the retry.
C15_DlqRetryRejected ==
    [][\A o \in Operators :
          /\ (cli[o] = Idle /\ cli'[o].op = "dlq_retry") =>
                /\ cli'[o].job.id \in DOMAIN jobs
                /\ jobs[cli'[o].job.id].state = DEAD
          /\ (cli[o] = Idle /\ cli'[o].op = "exit"
                            /\ cli'[o].cmd = "dlq_retry") =>
                /\ cli'[o].code = 1
                /\ \/ cli'[o].id \notin DOMAIN jobs
                   \/ jobs[cli'[o].id].state # DEAD
                /\ jobs' = jobs
                /\ config' = config
          /\ (cli[o].op = "exit" /\ cli[o].cmd = "dlq_retry"
                                 /\ cli'[o] = Idle) =>
                /\ jobs' = jobs
                /\ config' = config]_vars

\* dlq retry was rejected on a stored job that is not dead.
C15_Witness ==
    /\ cli[1].op = "exit"
    /\ cli[1].cmd = "dlq_retry"
    /\ cli[1].id \in DOMAIN jobs
    /\ jobs[cli[1].id].state \in {PENDING, PROCESSING, FAILED, COMPLETED}

\* C16 (RaceSpec): enqueue never replaces an existing job: whenever an
\* enqueue command does its put, no job with that id is in the store, for
\* any interleaving of enqueue commands and worker steps.
C16_EnqueueNeverReplaces ==
    [][\A o \in Operators :
          (cli[o].op = "enqueue" /\ cli'[o] = Idle) =>
              cli[o].job.id \notin DOMAIN jobs]_vars

\* C17 (SurfaceSpec): every job a successful enqueue stores has state
\* pending, attempts 0, next_retry_at null and no lock, whatever its
\* description contains; priority defaults to 2, max_retries to the
\* configuration's max_retries at enqueue time, timeout to null.
C17_EnqueuedJobShape ==
    [][\A o \in Operators :
          /\ (cli[o] = Idle /\ cli'[o].op = "enqueue") =>
                \E d \in JobData :
                    LET j == cli'[o].job
                    IN  /\ j.command = d.command
                        /\ j.state = PENDING
                        /\ j.attempts = 0
                        /\ j.next_retry_at = NULL
                        /\ j.priority = IF Has(d, "priority")
                                        THEN d.priority ELSE DefaultPriority
                        /\ j.max_retries = IF Has(d, "max_retries")
                                           THEN d.max_retries
                                           ELSE config.max_retries
                        /\ j.timeout = IF Has(d, "timeout")
                                       THEN d.timeout ELSE NULL
          /\ (cli[o].op = "enqueue" /\ cli'[o] = Idle) =>
                LET row == jobs'[cli[o].job.id]
                IN  /\ row.state = PENDING
                    /\ row.attempts = 0
                    /\ row.next_retry_at = NULL
                    /\ row.locked_by = NULL
                    /\ row.locked_at = NULL]_vars

\* C18 (StoreSpec): after a put the stored job has locked_by and locked_at
\* null, whatever lock was stored before and whichever caller (worker,
\* enqueue, dlq retry, client) did the put; a get followed by the put of
\* its result leaves every column the get returned as it was.
C18_PutClearsLock ==
    [][/\ \A w \in Workers :
            (pc[w] = "save" /\ pc'[w] = "release") =>
                /\ jobs'[job[w].id].locked_by = NULL
                /\ jobs'[job[w].id].locked_at = NULL
       /\ \A o \in Operators :
            /\ (cli[o].op \in {"enqueue", "dlq_retry", "put"}
                    /\ cli'[o] = Idle) =>
                  /\ jobs'[cli[o].job.id].locked_by = NULL
                  /\ jobs'[cli[o].job.id].locked_at = NULL
            /\ (cli[o] = Idle /\ cli'[o].op = "put") =>
                  \A c \in GetColumns :
                      cli'[o].job[c] = jobs[cli'[o].job.id][c]
            /\ (cli[o].op = "put" /\ cli'[o] = Idle) =>
                  \A c \in GetColumns :
                      jobs'[cli[o].job.id][c] = cli[o].job[c]]_vars

\* A client put back a job a worker holds: the row is processing with no
\* lock while the worker is still executing it.
C18_Witness ==
    \E w \in Workers :
        /\ pc[w] \in {"execute", "running"}
        /\ jobs[job[w].id].state = PROCESSING
        /\ jobs[job[w].id].locked_by = NULL
        /\ cli[1] = Idle

\* C19 (ShutdownSpec): when a termination signal has arrived while a worker
\* is executing a job, the attempt runs to its outcome, the job is stored in
\* completed, failed or dead, and the worker exits without beginning another
\* acquire.
C19_GracefulShutdown ==
    [][\A w \in Workers :
          ~running[w] =>
              /\ pc[w] = "running" =>
                    /\ pc'[w] \in {"running", "save"}
                    /\ pc'[w] = "save" =>
                          job'[w].state \in {COMPLETED, FAILED, DEAD}
              /\ pc[w] = "save" =>
                    /\ pc'[w] \in {"save", "release"}
                    /\ pc'[w] = "release" =>
                          jobs'[job[w].id].state \in {COMPLETED, FAILED, DEAD}
              /\ pc[w] = "release" => pc'[w] \in {"release", "loop"}
              /\ pc[w] = "loop" => pc'[w] \in {"loop", "down"}]_vars

\* C20 (SupervisedSpec): a start_workers call made while a tracked worker
\* process is alive spawns no process, returns the empty set and leaves the
\* live pids of the pid file as they were; so two tracked processes that
\* are alive were always spawned by the same call.
C20_StartRefusedWhileTracked ==
    [][/\ (mgr.op = "idle" /\ mgr'.op # "idle"
                           /\ \E w \in pidFile : pc[w] # "down") =>
              /\ mgr'.op = "return"
              /\ mgr'.pids = {}
              /\ pc' = pc
              /\ {w \in pidFile' : pc'[w] # "down"}
                    = {w \in pidFile : pc[w] # "down"}
       /\ (mgr.op = "return" /\ mgr'.op = "idle") =>
              /\ pc' = pc
              /\ pidFile' = pidFile
       /\ \A v, w \in pidFile' :
              (pc'[v] # "down" /\ pc'[w] # "down") => call'[v] = call'[w]]_vars

\* The second start_workers call is returning the empty set while a process
\* of the first call is alive and tracked.
C20_Witness ==
    /\ mgr.op = "return"
    /\ mgr.call = 2
    /\ mgr.pids = {}
    /\ \E w \in pidFile : pc[w] # "down" /\ call[w] = 1

--------------------------------------------------------------------------
(***************************************************************************)
(* The claims of the specification, C21 to C30.                            *)
(***************************************************************************)

C22_Termination ==
    /\ \A i \in JobIds : <>(jobs[i].state \in {COMPLETED, DEAD})
    /\ [](\A i \in JobIds :
             (jobs[i].command = "false" /\ jobs[i].state = DEAD) =>
                 /\ jobs[i].attempts = jobs[i].max_retries
                 /\ jobs[i].next_retry_at = NULL
                 /\ jobs[i].error_message # NullText)

\* C23 (BackoffSpec): when an attempt fails and a retry is scheduled, the
\* delay used (next_retry_at minus the failure time) is backoff_base^k
\* seconds, k the attempts after the failure, and it is not smaller than
\* the delay used for the job's previous failure, whatever configuration
\* values the worker has read.
C23_BackoffMonotone ==
    [][\A w \in Workers :
          (pc[w] = "running" /\ pc'[w] = "save"
                /\ job'[w].state = FAILED) =>
              /\ delays'[job[w].id] =
                    Pow(cfg[w].backoff_base, job'[w].attempts)
                        * TicksPerSecond
              /\ delays[job[w].id] # NULL =>
                    delays'[job[w].id] >= delays[job[w].id]]_vars

\* C24 (AcquireSpec): when several eligible jobs share the smallest
\* (priority, created_at) pair, the acquire returns the one with the
\* smallest id.
C24_TieBreakById ==
    [][\A w \in Workers :
          (pc[w] = "begin" /\ pc'[w] = "commit" /\ job'[w] # NoJob) =>
              \A k \in FirstRows(jobs, acqNow[w], now) : job'[w].id <= k]_vars

\* C25 (SurfaceSpec): in every reachable store state every stored job's
\* state is one of pending, processing, completed, failed and dead.
C25_SingleState ==
    \A i \in DOMAIN jobs :
        jobs[i].state \in {PENDING, PROCESSING, COMPLETED, FAILED, DEAD}

\* C26 (CrashSpec): the first step of a worker process is the startup reap,
\* which makes every processing job failed with locked_by and locked_at null
\* and leaves id, command, attempts, max_retries, priority, timeout,
\* next_retry_at and error_message of those jobs, and every field of the
\* other jobs, unchanged; the process then goes on to its loop, and in a
\* step in which no process starts a processing job becomes failed only by
\* the put of the worker that executed it (the reap is not run again).
C26_StartupReap ==
    [][/\ \A w \in Workers :
            (pc[w] = "down" /\ pc'[w] # "down") =>
                /\ pc'[w] = "loop"
                /\ DOMAIN jobs' = DOMAIN jobs
                /\ \A i \in DOMAIN jobs :
                      IF jobs[i].state = PROCESSING
                      THEN /\ jobs'[i].state = FAILED
                           /\ jobs'[i].locked_by = NULL
                           /\ jobs'[i].locked_at = NULL
                           /\ jobs'[i].id = jobs[i].id
                           /\ jobs'[i].command = jobs[i].command
                           /\ jobs'[i].attempts = jobs[i].attempts
                           /\ jobs'[i].max_retries = jobs[i].max_retries
                           /\ jobs'[i].priority = jobs[i].priority
                           /\ jobs'[i].timeout = jobs[i].timeout
                           /\ jobs'[i].next_retry_at = jobs[i].next_retry_at
                           /\ jobs'[i].error_message = jobs[i].error_message
                      ELSE jobs'[i] = jobs[i]
       /\ (\A w \in Workers : pc[w] = "down" => pc'[w] = "down") =>
            \A i \in DOMAIN jobs :
                (jobs[i].state = PROCESSING /\ jobs'[i].state = FAILED) =>
                    \E w \in Workers :
                        /\ pc[w] = "save" /\ pc'[w] = "release"
                        /\ job[w].id = i
                        /\ jobs'[i].attempts = job[w].attempts
                        /\ jobs'[i].next_retry_at = job[w].next_retry_at
                        /\ jobs'[i].error_message = job[w].error_message]_vars

\* A job the reap has made failed: no attempt of it was saved, and the
\* process that reaped it is at its loop.
C26_Witness ==
    /\ \E i \in DOMAIN jobs :
          /\ jobs[i].state = FAILED
          /\ jobs[i].attempts = 0
          /\ jobs[i].locked_by = NULL
          /\ jobs[i].locked_at = NULL
    /\ \E i \in DOMAIN jobs : jobs[i].state = PENDING
    /\ \E w \in Workers : pc[w] = "loop"

\* C27 (RaceSpec): the put that ends an executor attempt leaves the stored
\* job's id, command, created_at, max_retries, priority and timeout equal to
\* their values in the store just before the put, whatever the outcome and
\* whatever the other processes did in between.
C27_ExecutorFrame ==
    [][\A w \in Workers :
          (pc[w] = "save" /\ pc'[w] = "release" /\ jobs' # jobs) =>
              LET i == job[w].id
              IN  /\ i \in DOMAIN jobs
                  /\ jobs'[i].id = jobs[i].id
                  /\ jobs'[i].command = jobs[i].command
                  /\ jobs'[i].created_at = jobs[i].created_at
                  /\ jobs'[i].max_retries = jobs[i].max_retries
                  /\ jobs'[i].priority = jobs[i].priority
                  /\ jobs'[i].timeout = jobs[i].timeout]_vars

\* C28 (StatusSpec), as stated: at the moment status returns, the file
\* lists exactly the pids it tracked before that are alive, and status
\* reports exactly those workers.
C28_StatusListsTheAlive ==
    [][(mgr.op = "status" /\ mgr'.op = "reported") =>
          /\ pidFile' = {w \in mgr.tracked : pc'[w] # "down"}
          /\ mgr'.workers = {w \in mgr.tracked : pc'[w] # "down"}]_vars

\* C28 (StatusSpec), amended: status rewrites the file once, when it reads
\* it, to the tracked pids alive at that moment (no file when there is
\* none), and does not touch it again; it reports a worker only if the
\* file lists it and it was alive when probed in the loop, so when status
\* has returned every tracked worker that is alive is listed and reported,
\* and a worker listed but not reported is dead.
C28_Status ==
    [][/\ (mgr.op = "idle" /\ mgr'.op = "status") =>
            /\ pidFile' = {w \in pidFile : IsProcessRunning(w)}
            /\ mgr'.tracked = pidFile
            /\ mgr'.workers = {}
       /\ (mgr.op = "status" /\ mgr'.op \in {"status", "reported"}) =>
            /\ pidFile' = pidFile
            /\ mgr'.workers \subseteq pidFile
            /\ \A w \in mgr'.workers \ mgr.workers : IsProcessRunning(w)
       /\ (mgr.op = "status" /\ mgr'.op = "reported") =>
            /\ \A w \in mgr.tracked :
                  IsProcessRunning(w) => w \in pidFile /\ w \in mgr.workers
            /\ \A w \in pidFile \ mgr.workers : ~IsProcessRunning(w)]_vars

\* status has returned after a tracked worker died while it ran: the file
\* lists the worker, the report does not; another worker is reported.
C28_Witness ==
    /\ mgr.op = "reported"
    /\ \E w \in pidFile : w \notin mgr.workers /\ ~IsProcessRunning(w)
    /\ mgr.workers # {}

\* C29 (SurfaceSpec): when the first failed attempt after a dlq retry
\* without --reset-attempts is put, the job is dead again, with the
\* max_retries it had and attempts one higher than before the retry; after
\* a dlq retry with --reset-attempts the put of a failed attempt makes the
\* job dead exactly when it is the max_retries-th failed attempt since.
C29_RetryThenFail ==
    [][\A w \in Workers :
          (/\ pc[w] = "save" /\ pc'[w] = "release" /\ jobs' # jobs
           /\ job[w].state \in {FAILED, DEAD}
           /\ retried[job[w].id] # NoRetry) =>
              LET i == job[w].id
                  r == retried[i]
              IN  /\ (~r.reset /\ r.fails = 1) =>
                        /\ jobs'[i].state = DEAD
                        /\ jobs'[i].attempts = r.attempts + 1
                        /\ jobs'[i].max_retries = jobs[i].max_retries
                  /\ r.reset =>
                        (jobs'[i].state = DEAD
                            <=> r.fails = jobs'[i].max_retries)]_vars

\* C30 (LockSpec): in every reachable store state a job with locked_by set
\* has state processing, so a job that passes the acquire eligibility test
\* passes it by "locked_by IS NULL", never by the stale-lock alternative.
C30_LockedIsProcessing ==
    \A i \in DOMAIN jobs :
        /\ jobs[i].locked_by # NULL => jobs[i].state = PROCESSING
        /\ Eligible(jobs[i], now, now) => jobs[i].locked_by = NULL

\* A killed worker's job, still processing under a lock that has become
\* stale.
C30_Witness ==
    \E i \in DOMAIN jobs :
        /\ jobs[i].locked_by # NULL
        /\ pc[jobs[i].locked_by] = "down"
        /\ StaleLock(jobs[i].locked_at, now)
        /\ jobs[i].state = PROCESSING

--------------------------------------------------------------------------
(***************************************************************************)
(* The claims of the specification, C31 to C34.                            *)
(***************************************************************************)

\* C31 (ClearSpec): an id that is not in the store (never stored, or deleted
\* by clear or dlq clear) comes into the store only by the put of a
\* successful enqueue of that id, also when a worker was executing the job
\* when it was deleted.
C31_DeletionIsFinal ==
    [][\A i \in JobIds :
          (i \notin DOMAIN jobs /\ i \in DOMAIN jobs') =>
              \E o \in Operators :
                  /\ cli[o].op = "enqueue"
                  /\ cli[o].job.id = i
                  /\ cli'[o] = Idle]_vars

\* C32 (KillSpec): with no dlq retry, the command of a job is invoked at
\* most max(1, max_retries) times, also when the worker is killed during an
\* attempt and the job is recovered by the reap of the next start.
C32_InvocationsBounded ==
    \A i \in DOMAIN jobs :
        runs[i] <= (IF jobs[i].max_retries > 1 THEN jobs[i].max_retries ELSE 1)

\* C33 (Spec): once a job is stored as completed, no step of a worker or of
\* a command other than its deletion changes its state or its attempts.
C33_CompletedTerminality ==
    [][\A i \in DOMAIN jobs :
          jobs[i].state = COMPLETED =>
              \/ i \notin DOMAIN jobs'
              \/ /\ jobs'[i].state = COMPLETED
                 /\ jobs'[i].attempts = jobs[i].attempts]_vars

\* C34 (BatchSpec): from one store state to the next the stored attempts of a job
\* that stays in the store does not decrease, except by the put of a dlq
\* retry with --reset-attempts on that job.
C34_AttemptsMonotone ==
    [][\A i \in DOMAIN jobs :
          \/ i \notin DOMAIN jobs'
          \/ jobs'[i].attempts >= jobs[i].attempts
          \/ \E o \in Operators :
                /\ cli[o].op = "dlq_retry"
                /\ cli[o].reset
                /\ cli[o].job.id = i
                /\ cli'[o] = Idle]_vars

==========================================================================
